---- MODULE Spec2Model ----
(***************************************************************************)
(* larrecodnn/ImagePatternAlgs as state machines.                          *)
(*   Spec          anab::MVAWriter<N> (PointIdAlg/MVAWriter.h): the        *)
(*                 writer's fields, the art::Event it puts into, and one   *)
(*                 action per member function.                             *)
(*   PointIdAlgSpec  nnet::PointIdAlg's patch buffer and its network graph *)
(*                 (Tensorflow/PointIdAlg/PointIdAlg.h, TF/tf_graph.h).    *)
(*   TritonSpec    triton_utils' error helpers and the message log         *)
(*                 (NuSonic/Triton/triton_utils.cc).                       *)
(*   LabelSpec     nnet::TrainingDataAlg's label bit fields                *)
(*                 (Tensorflow/PointIdAlg/PointIdAlg.h).                   *)
(***************************************************************************)
EXTENDS Integers, Sequences, FiniteSets, TLC

\* ------------------------------------------------------------------ bounds

\* Allocations in one event, over all types: one per Output collection
\* (initOutputs) and one per MVAOutput<N> entry (resize, emplace_back).
MaxAlloc == 3

\* ------------------------------------------------------- program constants

\* template <size_t N>: the width of one MVA output vector.
N == 2

\* The constructor's name argument (the doc comment's example).
fInstanceNameValue == "emtrack"

\* Data product types T the writer is used for.
Types == {"Hit", "Cluster"}

\* art::InputTag values passed to initOutputs.
Tags == {"hits"}

\* Values a caller passes: doubles. The even ones are exactly representable as
\* float; an odd one lies between two floats.
Values == {0, 1, 2}

\* double -> float narrowing: setOutput/addOutput store into MVAOutput<N>
\* (built from 0.0F, read back into std::array<float, N>).
ToFloat(v) == v - (v % 2)

\* std::array<double, N> / std::vector<double> of N values.
ValueVectors == [1..N -> Values]

\* anab::MVAOutput<N>(values): the values as float.
MVAOutput(values) == [i \in 1..N |-> ToFloat(values[i])]

\* anab::MVAOutput<N>(0.0F)
ZeroOutput == [i \in 1..N |-> 0]

\* anab::MVADescription<N>(dataTag, outputInstance)
MVADescription(dataTag, outputInstance) ==
    [dataTag |-> dataTag, outputInstance |-> outputInstance]

\* std::unique_ptr: empty (nullptr) or owning one object.
nullptr == <<>>
make_unique(v) == <<v>>
deref(p) == p[1]

\* Element i (0-based, as in the code) of a std::vector.
At(vec, i) == vec[i + 1]

\* getProductName(typeid(T)): the type's name.
getProductName(T) == T

\* getProductHash(typeid(T)): one hash per type.
getProductHash(T) == CASE T = "Hit" -> 1 [] T = "Cluster" -> 2

\* art::InputTag::encode()
encode(dataTag) == dataTag

\* MVAOutput_ID arguments a caller may pass: valid, stale and never valid ones.
Ids == 0..Cardinality(Types)
\* Keys a caller may pass: in range and out of range.
Keys == 0..(MaxAlloc - 1)

\* ------------------------------------------------------------------- state

VARIABLES
    fRegisteredDataTypes,      \* std::vector<std::string>
    fIsDescriptionRegistered,  \* bool
    fProducer,                 \* products declared to the art::EDProducer
    fTypeHashToID,             \* std::unordered_map<size_t, MVAOutput_ID>
    fOutputs,                  \* vector of unique_ptr to vector of MVAOutput<N>
    fDescriptions,             \* unique_ptr to vector of MVADescription<N>
    evt,                       \* the products put into the current art::Event
    result                     \* outcome of the last call

\* nnet::PointIdAlg (with the img::DataProviderAlg fields bufferPatch reads)
VARIABLES
    fDownscaleFullView,        \* bool (configuration)
    fDriftWindow,              \* size_t (configuration)
    fCurrentWireIdx,           \* mutable size_t
    fCurrentScaledDrift,       \* mutable size_t
    fWireDriftPatch,           \* mutable patch data around the identified point
    patch,                     \* a patch buffer of the caller's
    called                     \* calls made into other code by the last call

\* messagefacility
VARIABLES
    messages                   \* the warnings logged so far

\* The variables of the MVAWriter and its event.
writerVars == <<fRegisteredDataTypes, fIsDescriptionRegistered, fProducer,
                fTypeHashToID, fOutputs, fDescriptions, evt>>

\* The variables of the PointIdAlg.
algVars == <<fDownscaleFullView, fDriftWindow, fCurrentWireIdx, fCurrentScaledDrift,
             fWireDriftPatch, patch, called>>

vars == <<writerVars, algVars, messages, result>>

\* Data initialized for the module life.
lifeVars == <<fRegisteredDataTypes, fIsDescriptionRegistered, fProducer>>

\* Data collected for each event.
eventData == <<fTypeHashToID, fOutputs, fDescriptions>>

\* A call of op(args) that returned value.
Returned(op, args, value) ==
    [op |-> op, args |-> args, kind |-> "ok", msg |-> "", value |-> value]

\* throw cet::exception("MVAWriter") << msg
Thrown(op, msg) ==
    [op |-> op, args |-> <<>>, kind |-> "MVAWriter", msg |-> msg, value |-> <<>>]

\* Undefined behaviour (out-of-range operator[], null dereference): the process
\* dies, or the call returns with no effect on the writer.
Undefined ==
    {[op |-> "", args |-> <<>>, kind |-> k, msg |-> "", value |-> <<>>] :
        k \in {"segv", "ub"}}

\* The process is alive.
Running == result.kind # "segv"

\* Allocations made so far in the event: the collections and entries held by the
\* writer and by the event's output products.
RECURSIVE SumLen(_)
SumLen(s) == IF s = <<>> THEN 0 ELSE Len(Head(s)) + SumLen(Tail(s))

AllocInEvent ==
    SumLen([i \in 1..Len(fOutputs) |-> <<0>> \o deref(fOutputs[i])])
    + SumLen([i \in 1..Len(evt) |->
                 IF evt[i].type = "MVAOutput" THEN <<0>> \o evt[i].product ELSE <<>>])

\* The run has no PointIdAlg.
NoPointIdAlg ==
    /\ fDownscaleFullView = FALSE
    /\ fDriftWindow = 0
    /\ fCurrentWireIdx = 0
    /\ fCurrentScaledDrift = 0
    /\ fWireDriftPatch = <<>>
    /\ patch = <<>>
    /\ called = <<>>

\* Nothing has been logged.
NoMessages == messages = <<>>

\* The run has no MVAWriter.
NoMVAWriter ==
    /\ fRegisteredDataTypes = <<>>
    /\ fIsDescriptionRegistered = FALSE
    /\ fProducer = <<>>
    /\ fTypeHashToID = <<>>
    /\ fOutputs = <<>>
    /\ fDescriptions = <<>>
    /\ evt = <<>>

\* MVAWriter(module, name)
Init ==
    /\ fRegisteredDataTypes = <<>>
    /\ fIsDescriptionRegistered = FALSE
    /\ fProducer = <<>>
    /\ fTypeHashToID = <<>>
    /\ fOutputs = <<>>
    /\ fDescriptions = nullptr
    /\ evt = <<>>
    /\ result = Returned("MVAWriter", <<>>, <<>>)
    /\ NoPointIdAlg
    /\ NoMessages

\* fProducer->produces<product type>(instance)
produces(type, instance) == [type |-> type, instance |-> instance]

\* produces_using without the fIsDescriptionRegistered test: the Description
\* collection is declared on every call.
produces_using_AlwaysDescription(T) ==
    LET dataName == getProductName(T)
    IN /\ Running
       /\ \A k \in 1..Len(fRegisteredDataTypes) : fRegisteredDataTypes[k] # dataName
       /\ fIsDescriptionRegistered' = TRUE
       /\ fProducer' = fProducer
              \o <<produces("MVADescription", fInstanceNameValue),
                   produces("MVAOutput", fInstanceNameValue \o dataName)>>
       /\ fRegisteredDataTypes' = Append(fRegisteredDataTypes, dataName)
       /\ result' = Returned("produces_using", <<T>>, <<>>)
       /\ UNCHANGED <<eventData, evt>>

\* template <class T> void produces_using()
\* (a producer declares each product once: the framework refuses a second
\* declaration of the same type and instance name)
produces_using(T) ==
    LET dataName == getProductName(T)
        declared == IF ~fIsDescriptionRegistered
                    THEN Append(fProducer, produces("MVADescription", fInstanceNameValue))
                    ELSE fProducer
    IN /\ Running
       /\ \A k \in 1..Len(fRegisteredDataTypes) : fRegisteredDataTypes[k] # dataName
       /\ fIsDescriptionRegistered' = TRUE
       /\ fProducer' = Append(declared, produces("MVAOutput", fInstanceNameValue \o dataName))
       /\ fRegisteredDataTypes' = Append(fRegisteredDataTypes, dataName)
       /\ result' = Returned("produces_using", <<T>>, <<>>)
       /\ UNCHANGED <<eventData, evt>>

\* descriptionExists comparing with the bare type name instead of
\* fInstanceName + tname.
descriptionExists_BareTypeName(tname) ==
    IF fDescriptions = nullptr THEN FALSE
    ELSE \E i \in 1..Len(deref(fDescriptions)) :
             deref(fDescriptions)[i].outputInstance = tname

\* descriptionExists without the name comparison: any Description counts.
descriptionExists_AnyDescription(tname) ==
    IF fDescriptions = nullptr THEN FALSE
    ELSE Len(deref(fDescriptions)) > 0

\* bool descriptionExists(std::string tname)
descriptionExists(tname) ==
    IF fDescriptions = nullptr THEN FALSE
    ELSE LET n == fInstanceNameValue \o tname
         IN \E i \in 1..Len(deref(fDescriptions)) :
                deref(fDescriptions)[i].outputInstance = n

\* template <class T> MVAOutput_ID getProductID() const: the id, or none (throws).
getProductID(T) ==
    LET h == getProductHash(T)
    IN IF h \in DOMAIN fTypeHashToID
       THEN [found |-> TRUE, id |-> fTypeHashToID[h]]
       ELSE [found |-> FALSE, id |-> 0]

\* reserve in place of resize: no entry is made.
resize_Reserve(vec, n, value) == vec

\* std::vector::resize(n, value) on a vector not longer than n
resize(vec, n, value) == vec \o [k \in 1..(n - Len(vec)) |-> value]

\* The assignment ignoring key: always entry 0.
assign_FirstEntry(vec, key, values) == [vec EXCEPT ![1] = MVAOutput(values)]

\* (*(fOutputs[id]))[key] = values
assign(vec, key, values) == [vec EXCEPT ![key + 1] = MVAOutput(values)]

\* Insertion at the front in place of emplace_back.
emplace_back_Front(vec, values) == <<MVAOutput(values)>> \o vec

\* fOutputs[id]->emplace_back(values)
emplace_back(vec, values) == Append(vec, MVAOutput(values))

\* The id without the "- 1".
newOutputID_OffByOne(outputs) == Len(outputs)

\* anab::MVAOutput_ID id = fOutputs.size() - 1 (after the push_back)
newOutputID(outputs) == Len(outputs) - 1

\* initOutputs testing for the duplicate after fDescriptions->emplace_back: the
\* call that throws has already appended a Description.
initOutputs_ThrowsAfterEmplace(T, dataTag, dataSize) ==
    LET dataHash == getProductHash(T)
        dataName == getProductName(T)
        descs == IF fDescriptions = nullptr THEN <<>> ELSE deref(fDescriptions)
        id == newOutputID(Append(fOutputs, make_unique(<<>>)))
    IN /\ Running
       /\ AllocInEvent + 1 + dataSize <= MaxAlloc
       /\ fDescriptions' = make_unique(Append(descs,
               MVADescription(encode(dataTag), fInstanceNameValue \o dataName)))
       /\ IF fDescriptions # nullptr /\ descriptionExists(dataName)
          THEN /\ result' = Thrown("initOutputs", "MVADescription<N> already initialized")
               /\ UNCHANGED <<lifeVars, fTypeHashToID, fOutputs, evt>>
          ELSE /\ fOutputs' = Append(fOutputs,
                      make_unique(resize(<<>>, dataSize, ZeroOutput)))
               /\ fTypeHashToID' = (dataHash :> id) @@ fTypeHashToID
               /\ result' = Returned("initOutputs", <<T, dataSize>>, <<id>>)
               /\ UNCHANGED <<lifeVars, evt>>

\* template <class T> MVAOutput_ID initOutputs(dataTag, dataSize, names)
\* (the append-mode overload passes dataSize = 0)
initOutputs(T, dataTag, dataSize) ==
    LET dataHash == getProductHash(T)
        dataName == getProductName(T)
    IN /\ Running
       /\ AllocInEvent + 1 + dataSize <= MaxAlloc
       /\ IF fDescriptions # nullptr /\ descriptionExists(dataName)
          THEN /\ result' = Thrown("initOutputs", "MVADescription<N> already initialized")
               /\ UNCHANGED <<lifeVars, eventData, evt>>
          ELSE LET descs == IF fDescriptions = nullptr THEN <<>> ELSE deref(fDescriptions)
                   id == newOutputID(Append(fOutputs, make_unique(<<>>)))
                   coll == resize(<<>>, dataSize, ZeroOutput)
               IN /\ fDescriptions' = make_unique(Append(descs,
                          MVADescription(encode(dataTag), fInstanceNameValue \o dataName)))
                  /\ fOutputs' = Append(fOutputs, make_unique(coll))
                  /\ fTypeHashToID' = (dataHash :> id) @@ fTypeHashToID
                  /\ result' = Returned("initOutputs", <<T, dataSize>>, <<id>>)
                  /\ UNCHANGED <<lifeVars, evt>>

\* void setOutput(MVAOutput_ID id, size_t key, values)
setOutput(id, key, values) ==
    /\ Running
    /\ IF id >= Len(fOutputs) \/ key >= Len(deref(At(fOutputs, id)))
       THEN /\ result' \in Undefined
            /\ UNCHANGED <<lifeVars, eventData, evt>>
       ELSE /\ fOutputs' = [fOutputs EXCEPT ![id + 1] =
                   make_unique(assign(deref(@), key, values))]
            /\ result' = Returned("setOutput", <<id, key, values>>, <<>>)
            /\ UNCHANGED <<lifeVars, fTypeHashToID, fDescriptions, evt>>

\* void addOutput(MVAOutput_ID id, values)
addOutput(id, values) ==
    /\ Running
    /\ AllocInEvent + 1 <= MaxAlloc
    /\ IF id >= Len(fOutputs)
       THEN /\ result' \in Undefined
            /\ UNCHANGED <<lifeVars, eventData, evt>>
       ELSE /\ fOutputs' = [fOutputs EXCEPT ![id + 1] =
                   make_unique(emplace_back(deref(@), values))]
            /\ result' = Returned("addOutput", <<id, values>>, <<>>)
            /\ UNCHANGED <<lifeVars, fTypeHashToID, fDescriptions, evt>>

\* template <class T> std::array<float, N> getOutput(size_t key) const:
\* the outcomes of the call in the current state.
getOutput(T, key) ==
    LET pid == getProductID(T)
    IN IF ~pid.found
       THEN {Thrown("getOutput", "MVA not initialized for product")}
       ELSE IF pid.id >= Len(fOutputs) \/ key >= Len(deref(At(fOutputs, pid.id)))
            THEN Undefined
            ELSE LET src == At(deref(At(fOutputs, pid.id)), key)
                 IN {Returned("getOutput", <<T, key>>, [i \in 1..N |-> src[i]])}

\* clearEventData without fDescriptions.reset(nullptr).
clearEventData_KeepsDescriptions ==
    /\ fTypeHashToID' = <<>>
    /\ fOutputs' = <<>>
    /\ fDescriptions' = fDescriptions

\* void clearEventData()
clearEventData ==
    /\ fTypeHashToID' = <<>>
    /\ fOutputs' = <<>>
    /\ fDescriptions' = nullptr

\* evt.put(std::move(product), instance): the writer's call, recorded as made
\* (what the event store does with a second product of one name is its own).
put(type, product, instance) ==
    [type |-> type, instance |-> instance, product |-> product]

\* The puts with (*fDescriptions)[0] in place of (*fDescriptions)[i].
putAll_FirstDescriptionName ==
    [i \in 1..Len(fOutputs) |->
        put("MVAOutput", deref(fOutputs[i]), deref(fDescriptions)[1].outputInstance)]
    \o <<put("MVADescription", deref(fDescriptions), fInstanceNameValue)>>

\* saveOutputs' puts: every Output collection under its Description's instance
\* name, then the Descriptions under the writer's name.
putAll ==
    [i \in 1..Len(fOutputs) |->
        put("MVAOutput", deref(fOutputs[i]), deref(fDescriptions)[i].outputInstance)]
    \o <<put("MVADescription", deref(fDescriptions), fInstanceNameValue)>>

\* void saveOutputs(art::Event & evt)
saveOutputs ==
    /\ Running
    /\ IF \E k \in 1..Len(fRegisteredDataTypes) :
              ~descriptionExists(fRegisteredDataTypes[k])
       THEN /\ result' = Thrown("saveOutputs", "No MVADescription<N> prepared for type")
            /\ UNCHANGED <<lifeVars, eventData, evt>>
       ELSE IF fDescriptions = nullptr
       THEN /\ result' \in Undefined
            /\ UNCHANGED <<lifeVars, eventData, evt>>
       ELSE IF Len(fOutputs) # Len(deref(fDescriptions))
       THEN /\ result' = Thrown("saveOutputs", "vector length not equal")
            /\ UNCHANGED <<lifeVars, eventData, evt>>
       ELSE /\ evt' = evt \o putAll
            /\ clearEventData
            /\ result' = Returned("saveOutputs", <<>>, <<>>)
            /\ UNCHANGED lifeVars

\* The framework hands the producer the next art::Event; no writer code runs.
beginEvent ==
    /\ Running
    /\ evt' = <<>>
    /\ result' = Returned("beginEvent", <<>>, <<>>)
    /\ UNCHANGED <<lifeVars, eventData>>

Next ==
    \/ \E T \in Types : produces_using(T) /\ UNCHANGED <<algVars, messages>>
    \/ \E T \in Types, dataTag \in Tags, dataSize \in 0..MaxAlloc :
           initOutputs(T, dataTag, dataSize) /\ UNCHANGED <<algVars, messages>>
    \/ \E id \in Ids, key \in Keys, values \in ValueVectors :
           setOutput(id, key, values) /\ UNCHANGED <<algVars, messages>>
    \/ \E id \in Ids, values \in ValueVectors :
           addOutput(id, values) /\ UNCHANGED <<algVars, messages>>
    \/ saveOutputs /\ UNCHANGED <<algVars, messages>>
    \/ beginEvent /\ UNCHANGED <<algVars, messages>>

Spec == Init /\ [][Next]_vars

\* -------------------------------------------------------- nnet::PointIdAlg

\* Wire indices a caller asks for.
Wires == {0, 1}

\* Drift values (float) a caller asks for, counted in half ticks: 3 is 1.5.
Drifts == {0, 1, 2, 3}

\* Configured drift windows (ticks per downscaled sample).
DriftWindows == {1, 2}

\* (size_t)drift: the float loses its fraction.
ToSizeT(drift) == drift \div 2

\* A size_t converted to float, as the comparison with a float does.
ToFloatOfSizeT(n) == 2 * n

\* (size_t)(drift / fDriftWindow)
ScaledDrift(drift, window) == drift \div (2 * window)

\* The value the constructor gives both cached coordinates: no position asked for.
NoPosition == 99999

\* The patch as resizePatch() leaves it: zeros.
ZeroPatch == [wire |-> 0, drift |-> 0, data |-> "zero"]

\* The buffers bufferPatch may be given.
Buffers == {"fWireDriftPatch", "patch"}

\* img::DataProviderAlg::patchFromDownsampledView / patchFromOriginalView
\* (wire, drift, fPatchSizeW, fPatchSizeD, patch): the outcomes. The view of the
\* event is fixed, so a complete extraction is a function of wire and drift; one
\* that returns false leaves the buffer as it was or partly written.
patchFromView(wire, drift, buffer) ==
    {[ret |-> TRUE, patch |-> [wire |-> wire, drift |-> drift, data |-> "complete"]],
     [ret |-> FALSE, patch |-> [wire |-> wire, drift |-> drift, data |-> "partial"]],
     [ret |-> FALSE, patch |-> buffer]}

\* A call into other code.
Call(fn, args, ret) == [fn |-> fn, args |-> args, ret |-> ret]

\* PointIdAlg(config): the configuration is read, the patch is sized and zeroed.
PointIdAlgInit ==
    /\ fDownscaleFullView \in BOOLEAN
    /\ fDriftWindow \in DriftWindows
    /\ fCurrentWireIdx = NoPosition
    /\ fCurrentScaledDrift = NoPosition
    /\ fWireDriftPatch = ZeroPatch
    /\ patch = ZeroPatch
    /\ called = <<>>
    /\ result = Returned("PointIdAlg", <<>>, <<>>)
    /\ NoMVAWriter
    /\ NoMessages

\* The extraction bufferPatch ends with on a miss: into the named buffer.
extract(fn, wire, drift, buffer) ==
    \E out \in patchFromView(wire, drift,
                              IF buffer = "patch" THEN patch ELSE fWireDriftPatch) :
        /\ called' = <<Call(fn, <<wire, drift, buffer>>, out.ret)>>
        /\ IF buffer = "patch"
           THEN patch' = out.patch /\ UNCHANGED fWireDriftPatch
           ELSE fWireDriftPatch' = out.patch /\ UNCHANGED patch
        /\ result' = Returned("bufferPatch", <<wire, drift, buffer>>, <<out.ret>>)

\* return true; // still within the current position
stillWithin(wire, drift, buffer) ==
    /\ called' = <<>>
    /\ result' = Returned("bufferPatch", <<wire, drift, buffer>>, <<TRUE>>)
    /\ UNCHANGED <<fCurrentWireIdx, fCurrentScaledDrift, fWireDriftPatch, patch>>

\* bool bufferPatch(size_t wire, float drift, std::vector<std::vector<float>>& patch)
\* bool bufferPatch(size_t wire, float drift): the same on fWireDriftPatch
bufferPatch(wire, drift, buffer) ==
    /\ IF fDownscaleFullView
       THEN LET sd == ScaledDrift(drift, fDriftWindow)
            IN IF (fCurrentWireIdx = wire) /\ (fCurrentScaledDrift = sd)
               THEN stillWithin(wire, drift, buffer)
               ELSE /\ fCurrentWireIdx' = wire
                    /\ fCurrentScaledDrift' = sd
                    /\ extract("patchFromDownsampledView", wire, drift, buffer)
       ELSE IF (fCurrentWireIdx = wire) /\ (ToFloatOfSizeT(fCurrentScaledDrift) = drift)
            THEN stillWithin(wire, drift, buffer)
            ELSE /\ fCurrentWireIdx' = wire
                 /\ fCurrentScaledDrift' = ToSizeT(drift)
                 /\ extract("patchFromOriginalView", wire, drift, buffer)
    /\ UNCHANGED <<fDownscaleFullView, fDriftWindow>>

\* ------------------------------------------------------------- tf::Graph

\* Model files a caller names.
GraphFiles == {"cnn.pb", "missing.pb"}

\* Output names a caller passes.
OutputNames == {<<>>, <<"softmax">>}

\* The Graph the not-throwing constructor makes.
Graph(graph_file_name, outputs, use_bundle) ==
    [graph_file_name |-> graph_file_name, fOutputNames |-> outputs,
     fUseBundle |-> use_bundle]

\* create returning the Graph whatever the constructor reported.
create_IgnoresSuccess(graph_file_name, outputs, use_bundle) ==
    \E success \in BOOLEAN :
        /\ called' = <<Call("Graph", <<graph_file_name, outputs, use_bundle>>, success)>>
        /\ result' = Returned("create", <<graph_file_name, outputs, use_bundle>>,
                              make_unique(Graph(graph_file_name, outputs, use_bundle)))
        /\ UNCHANGED <<fDownscaleFullView, fDriftWindow, fCurrentWireIdx,
                       fCurrentScaledDrift, fWireDriftPatch, patch>>

\* static std::unique_ptr<Graph> create(graph_file_name, outputs, use_bundle)
\* (the constructor sets success; its body decides, so either value)
create(graph_file_name, outputs, use_bundle) ==
    \E success \in BOOLEAN :
        LET ptr == make_unique(Graph(graph_file_name, outputs, use_bundle))
        IN /\ called' = <<Call("Graph", <<graph_file_name, outputs, use_bundle>>, success)>>
           /\ result' = Returned("create", <<graph_file_name, outputs, use_bundle>>,
                                 IF success THEN ptr ELSE nullptr)
           /\ UNCHANGED <<fDownscaleFullView, fDriftWindow, fCurrentWireIdx,
                          fCurrentScaledDrift, fWireDriftPatch, patch>>

PointIdAlgNext ==
    \/ \E wire \in Wires, drift \in Drifts, buffer \in Buffers :
           bufferPatch(wire, drift, buffer) /\ UNCHANGED <<writerVars, messages>>
    \/ \E graph_file_name \in GraphFiles, outputs \in OutputNames, use_bundle \in BOOLEAN :
           create(graph_file_name, outputs, use_bundle)
              /\ UNCHANGED <<writerVars, messages>>

PointIdAlgSpec == PointIdAlgInit /\ [][PointIdAlgNext]_vars

\* ---------------------------------------------------------- triton_utils

\* Warnings the message log holds at most.
MaxMessages == 2

\* nvidia::inferenceserver::client::Error: Error::Success, or an error with its
\* message.
Errors ==
    {[ok |-> TRUE, msg |-> ""]}
    \cup {[ok |-> FALSE, msg |-> m] : m \in {"connection refused", "model not found"}}

\* err.IsOk()
IsOk(err) == err.ok

\* The msg arguments of the callers.
Messages == {"unable to run Infer", "unable to get model statistics"}

\* msg << ": " << err
Text(err, msg) == msg \o ": " \o err.msg

\* throw cet::exception(category) << text, out of the call op(args)
Exception(op, args, category, text) ==
    [op |-> op, args |-> args, kind |-> category, msg |-> text, value |-> <<>>]

\* throwIfError with the test inverted.
throwIfError_ThrowsOnOk(err, msg) ==
    /\ IF IsOk(err)
       THEN result' = Exception("throwIfError", <<err, msg>>, "TritonServerFailure",
                                Text(err, msg))
       ELSE result' = Returned("throwIfError", <<err, msg>>, <<>>)
    /\ UNCHANGED messages

\* void throwIfError(const Error& err, std::string_view msg)
throwIfError(err, msg) ==
    /\ IF ~IsOk(err)
       THEN result' = Exception("throwIfError", <<err, msg>>, "TritonServerFailure",
                                Text(err, msg))
       ELSE result' = Returned("throwIfError", <<err, msg>>, <<>>)
    /\ UNCHANGED messages

\* bool warnIfError(const Error& err, std::string_view msg)
warnIfError(err, msg) ==
    /\ IF ~IsOk(err)
       THEN /\ Len(messages) < MaxMessages
            /\ messages' = Append(messages,
                   [category |-> "TritonServerWarning", text |-> Text(err, msg)])
       ELSE UNCHANGED messages
    /\ result' = Returned("warnIfError", <<err, msg>>, <<IsOk(err)>>)

\* Nothing but the result of the last call has been set.
TritonInit ==
    /\ result = Returned("triton_utils", <<>>, <<>>)
    /\ NoMessages
    /\ NoMVAWriter
    /\ NoPointIdAlg

TritonNext ==
    \/ \E err \in Errors, msg \in Messages :
           throwIfError(err, msg) /\ UNCHANGED <<writerVars, algVars>>
    \/ \E err \in Errors, msg \in Messages :
           warnIfError(err, msg) /\ UNCHANGED <<writerVars, algVars>>

TritonSpec == TritonInit /\ [][TritonNext]_vars

\* ------------------------------------------------- nnet::TrainingDataAlg

\* Flags OR-ed into one label at most.
MaxFlags == 2

\* A 32-bit word as the set of its one-bits (bit 0 the lowest), written as its
\* upper and lower 16 bits: Word(65535, 0) is 0xFFFF0000.
Word(hi, lo) ==
    {i \in 0..15 : (lo \div (2 ^ i)) % 2 = 1}
    \cup {16 + i : i \in {j \in 0..15 : (hi \div (2 ^ j)) % 2 = 1}}

\* a & b and a | b on 32-bit words
BitAnd(a, b) == a \cap b
BitOr(a, b) == a \cup b

\* enum EMask
kNone == Word(0, 0)
kPdgMask == Word(0, 4095)          \* 0x00000FFF
kTypeMask == Word(0, 61440)        \* 0x0000F000
kVtxMask == Word(65535, 0)         \* 0xFFFF0000

\* enum ETrkType
kDelta == Word(0, 4096)            \* 0x1000

\* kMichel with the value of kDelta.
kMichel_SameAsDelta == Word(0, 4096)

kMichel == Word(0, 8192)           \* 0x2000
kPriEl == Word(0, 16384)           \* 0x4000
kPriMu == Word(0, 32768)           \* 0x8000

\* enum EVtxId
kNuNC == Word(1, 0)                \* 0x0010000
kNuCC == Word(2, 0)                \* 0x0020000
kNuPri == Word(4, 0)               \* 0x0040000
kNuE == Word(16, 0)                \* 0x0100000
kNuMu == Word(32, 0)               \* 0x0200000
kNuTau == Word(64, 0)              \* 0x0400000
kHadr == Word(256, 0)              \* 0x1000000
kPi0 == Word(512, 0)               \* 0x2000000
kDecay == Word(1024, 0)            \* 0x4000000
kConv == Word(2048, 0)             \* 0x8000000
kElectronEnd == Word(4096, 0)      \* 0x10000000
kElastic == Word(8192, 0)          \* 0x20000000
kInelastic == Word(16384, 0)       \* 0x40000000

ETrkType == <<kDelta, kMichel, kPriEl, kPriMu>>

EVtxId == <<kNuNC, kNuCC, kNuPri, kNuE, kNuMu, kNuTau, kHadr, kPi0, kDecay, kConv,
            kElectronEnd, kElastic, kInelastic>>

\* Every flag of the two enums.
Flags == ETrkType \o EVtxId

\* PDG codes a label starts from (electron, muon, proton).
Pdgs == {Word(0, 11), Word(0, 13), Word(0, 2212)}

\* A label is made from a PDG code: label = pdg & kPdgMask, no flag set yet.
\* The result holds the PDG code, the flags OR-ed in so far, and the label.
LabelInit ==
    /\ \E pdg \in Pdgs : result = Returned("label", <<pdg, {}>>, <<BitAnd(pdg, kPdgMask)>>)
    /\ NoMessages
    /\ NoMVAWriter
    /\ NoPointIdAlg

\* label |= flag
setFlag(flag) ==
    /\ Cardinality(result.args[2]) < MaxFlags
    /\ flag \notin result.args[2]
    /\ result' = Returned("label", <<result.args[1], result.args[2] \cup {flag}>>,
                          <<BitOr(result.value[1], flag)>>)

LabelNext ==
    \E i \in 1..Len(Flags) : setFlag(Flags[i]) /\ UNCHANGED <<writerVars, algVars, messages>>

LabelSpec == LabelInit /\ [][LabelNext]_vars

\* ------------------------------------------------------------------ claims

\* The instance name of type T's Output collection.
InstanceOf(T) == "emtrack" \o T

\* The Descriptions the writer holds (none while the container is absent).
Descriptions == IF fDescriptions = <<>> THEN <<>> ELSE fDescriptions[1]

\* Type T has a Description.
HasDescription(T) ==
    \E i \in 1..Len(Descriptions) : Descriptions[i].outputInstance = InstanceOf(T)

\* All per-event writer state is empty.
Idle == fTypeHashToID = <<>> /\ fOutputs = <<>> /\ fDescriptions = <<>>

\* C1: while type T has a Description, initOutputs<T> throws the MVAWriter
\* "already initialized" exception and leaves the whole writer state (Descriptions,
\* Output collections, type registry) and the event as they were.
C1_DuplicateInitFails ==
    [][\A T \in Types, dataTag \in Tags, dataSize \in 0..MaxAlloc :
          (result'.op = "initOutputs" /\ HasDescription(T)
           /\ initOutputs(T, dataTag, dataSize))
          => /\ result'.kind = "MVAWriter"
             /\ result'.msg = "MVADescription<N> already initialized"
             /\ UNCHANGED <<fTypeHashToID, fOutputs, fDescriptions,
                            fRegisteredDataTypes, fIsDescriptionRegistered, evt>>]_vars

\* A duplicate initOutputs<T> has just failed while another type is initialised too.
C1_Witness ==
    /\ result.op = "initOutputs"
    /\ result.kind = "MVAWriter"
    /\ Len(Descriptions) = 2
    /\ \A T \in Types : HasDescription(T)

\* C2: while some type declared through produces_using has no Description,
\* saveOutputs throws the MVAWriter "No MVADescription" exception, puts nothing
\* into the event and leaves the per-event writer state as it was.
C2_SaveWithoutDescriptionFails ==
    [][(/\ result'.op = "saveOutputs"
        /\ \E k \in 1..Len(fRegisteredDataTypes) : ~HasDescription(fRegisteredDataTypes[k])
        /\ saveOutputs)
       => /\ result'.kind = "MVAWriter"
          /\ result'.msg = "No MVADescription<N> prepared for type"
          /\ UNCHANGED <<fTypeHashToID, fOutputs, fDescriptions, evt>>]_vars

\* saveOutputs has just failed for a declared type without a Description while
\* another declared type has one.
C2_Witness ==
    /\ result.op = "saveOutputs"
    /\ result.kind = "MVAWriter"
    /\ Len(fRegisteredDataTypes) = 2
    /\ \E k \in 1..2 : HasDescription(fRegisteredDataTypes[k])
    /\ \E k \in 1..2 : ~HasDescription(fRegisteredDataTypes[k])

\* C3: getOutput<T> for a type with no registry entry, and setOutput and addOutput
\* for an id that is no index of an Output collection, fail with the MVAWriter
\* lookup exception and read or write no Output collection.
C3_UninitialisedUseFails ==
    [][/\ \A T \in Types, key \in Keys :
             getProductHash(T) \notin DOMAIN fTypeHashToID
             => \A r \in getOutput(T, key) : r.kind = "MVAWriter"
       /\ \A id \in Ids, key \in Keys, values \in ValueVectors :
             (id >= Len(fOutputs)
              /\ (setOutput(id, key, values) \/ addOutput(id, values)))
             => result'.kind = "MVAWriter" /\ fOutputs' = fOutputs]_vars

\* C4: the number of Output collections equals the number of Descriptions (zero
\* when the container is absent), and every type in the registry has exactly
\* one Description and one Output collection of its own.
C4_OneDescriptionOneOutput ==
    /\ Len(fOutputs) = Len(Descriptions)
    /\ \A T \in Types :
          getProductHash(T) \in DOMAIN fTypeHashToID
          => /\ Cardinality({i \in 1..Len(Descriptions) :
                    Descriptions[i].outputInstance = InstanceOf(T)}) = 1
             /\ fTypeHashToID[getProductHash(T)] \in 0..(Len(fOutputs) - 1)
             /\ \A U \in Types \ {T} :
                   getProductHash(U) \in DOMAIN fTypeHashToID
                   => fTypeHashToID[getProductHash(U)] # fTypeHashToID[getProductHash(T)]

\* Both types are initialised in one event, one of them holding an entry.
C4_Witness ==
    /\ Len(fOutputs) = 2
    /\ DOMAIN fTypeHashToID = {getProductHash(T) : T \in Types}
    /\ \E i \in 1..2 : Len(fOutputs[i][1]) = 1

\* r is the outcome of a call of op that returned normally.
ReturnedFrom(op, r) == r.op = op /\ r.kind = "ok"

\* The last call was a saveOutputs that returned normally.
SavedOk == ReturnedFrom("saveOutputs", result)

\* C5: a saveOutputs that succeeds leaves the type registry and the Output
\* collections empty and the Description container absent, and from that state
\* initOutputs<T> succeeds for every type T, starting again at id 0.
C5_SaveResetsToIdle ==
    [][/\ (result'.op = "saveOutputs" /\ result'.kind = "ok" /\ saveOutputs)
          => (fTypeHashToID' = <<>> /\ fOutputs' = <<>> /\ fDescriptions' = <<>>)
       /\ SavedOk
          => \A T \in Types, dataTag \in Tags, dataSize \in 0..MaxAlloc :
                initOutputs(T, dataTag, dataSize)
                => (result'.kind = "ok" /\ result'.value = <<0>>)]_vars

\* saveOutputs has just succeeded for two types.
C5_Witness == SavedOk /\ Len(evt) = 3

\* C6: when the next event begins, the type registry, the Output collections and
\* the Description container are empty, whatever was called during the event.
C6_NoStateAcrossEvents == result.op = "beginEvent" => Idle

\* The Output collection of an initialised type T.
CollectionOf(T) == fOutputs[fTypeHashToID[getProductHash(T)] + 1][1]

\* Type T is initialised and key is an index of its Output collection.
InRange(T, key) ==
    /\ getProductHash(T) \in DOMAIN fTypeHashToID
    /\ fTypeHashToID[getProductHash(T)] < Len(fOutputs)
    /\ key < Len(CollectionOf(T))

\* The values as single-precision numbers.
AsFloat(values) == [i \in 1..N |-> 2 * (values[i] \div 2)]

\* getOutput<T>(key) returns exactly vout.
Gets(T, key, vout) == getOutput(T, key) = {Returned("getOutput", <<T, key>>, vout)}

\* The step is a call that returned normally and is neither a setOutput nor a
\* saveOutputs, or a call that failed.
KeepsEntries(r) == r.kind # "ok" \/ r.op \notin {"setOutput", "saveOutputs"}

\* The round trip with stored(values) as the values setOutput is to leave.
RoundTrip(stored(_)) ==
    /\ ReturnedFrom("initOutputs", result')
          => \A T \in Types, dataSize \in 0..MaxAlloc :
                result'.args = <<T, dataSize>>
                => \A key \in 0..(dataSize - 1) : Gets(T, key, ZeroOutput)'
    /\ ReturnedFrom("setOutput", result')
          => \A T \in Types, k \in Keys :
                InRange(T, k)
                => IF fTypeHashToID[getProductHash(T)] = result'.args[1]
                      /\ k = result'.args[2]
                   THEN \E values \in ValueVectors :
                           values = result'.args[3] /\ Gets(T, k, stored(values))'
                   ELSE getOutput(T, k)' = getOutput(T, k)
    /\ (KeepsEntries(result') /\ <<fTypeHashToID, fOutputs>>' # <<fTypeHashToID, fOutputs>>)
          => \A T \in Types, k \in Keys :
                InRange(T, k) => getOutput(T, k)' = getOutput(T, k)
    /\ ReturnedFrom("saveOutputs", result')
          => \A T \in Types :
                getProductHash(T) \in DOMAIN fTypeHashToID
                => \E j \in (Len(evt) + 1)..Len(evt') :
                      /\ evt'[j].type = "MVAOutput"
                      /\ evt'[j].instance = InstanceOf(T)
                      /\ Len(evt'[j].product) = Len(CollectionOf(T))
                      /\ \A k \in Keys :
                            InRange(T, k) => Gets(T, k, evt'[j].product[k + 1])

\* C7 as claimed: getOutput<T>(key) returns exactly the values passed to the last
\* setOutput for that key (the zero placeholder if there was none), and
\* saveOutputs hands the same values to the event under T's instance name.
C7_RoundTripExact == [][RoundTrip(LAMBDA values : values)]_vars

\* C7 as amended: the same with the values converted to single precision, which
\* is what an MVAOutput<N> holds and getOutput returns.
C7_RoundTripAsFloat == [][RoundTrip(AsFloat)]_vars

\* A pre-sized collection of two entries: the second was set, the first still
\* holds the placeholder, and getOutput returns the set values.
C7_Witness ==
    /\ result.op = "setOutput"
    /\ result.kind = "ok"
    /\ \E T \in Types :
          /\ InRange(T, 1)
          /\ Gets(T, 0, ZeroOutput)
          /\ \E vout \in [1..N -> {0, 2}] : vout # ZeroOutput /\ Gets(T, 1, vout)

\* Puts i and j of the event are of the same product type under the same
\* instance name.
SamePut(e, i, j) == e[i].type = e[j].type /\ e[i].instance = e[j].instance

Lengths == [i \in 1..Len(fOutputs) |-> Len(fOutputs[i][1])]

\* C9: initOutputs<T>(tag, dataSize) makes a collection of dataSize zero-valued
\* entries (none in append mode), setOutput leaves every length as it is,
\* addOutput lengthens its collection by exactly one, and until saveOutputs
\* succeeds no collection gets shorter.
C9_LengthNeverDecreases ==
    [][/\ ReturnedFrom("initOutputs", result')
          => /\ Len(Lengths') = Len(Lengths) + 1
             /\ Lengths'[Len(Lengths')] = result'.args[2]
             /\ \A k \in 1..Lengths'[Len(Lengths')] :
                   fOutputs'[Len(fOutputs')][1][k] = [i \in 1..N |-> 0]
       /\ ReturnedFrom("setOutput", result') => Lengths' = Lengths
       /\ ReturnedFrom("addOutput", result')
          => /\ result'.args[1] + 1 \in DOMAIN Lengths
             /\ Lengths' = [Lengths EXCEPT ![result'.args[1] + 1] = @ + 1]
       /\ ~ReturnedFrom("saveOutputs", result')
          => /\ Len(Lengths') >= Len(Lengths)
             /\ \A i \in 1..Len(Lengths) : Lengths'[i] >= Lengths[i]]_vars

\* A pre-sized collection of two zero-valued entries has just been made.
C9_Witness ==
    /\ ReturnedFrom("initOutputs", result)
    /\ result.args[2] = 2
    /\ Lengths = <<2>>
    /\ fOutputs[1][1] = <<[i \in 1..N |-> 0], [i \in 1..N |-> 0]>>

\* C10: addOutput(id, values) stores the values (as an MVAOutput<N>) at the index
\* equal to the collection's length before the call and changes no other entry;
\* an existing entry i of collection id changes only in a setOutput(id, i, ...).
C10_AppendOnce ==
    [][/\ ReturnedFrom("addOutput", result')
          => \A id \in Ids :
                id = result'.args[1]
                => /\ id < Len(fOutputs)
                   /\ fOutputs'[id + 1][1][Lengths[id + 1] + 1] = AsFloat(result'.args[2])
                   /\ \A c \in 1..Len(fOutputs) : \A k \in 1..Lengths[c] :
                         fOutputs'[c][1][k] = fOutputs[c][1][k]
       /\ ~ReturnedFrom("saveOutputs", result')
          => \A c \in 1..Len(fOutputs) : \A k \in 1..Lengths[c] :
                fOutputs'[c][1][k] # fOutputs[c][1][k]
                => /\ ReturnedFrom("setOutput", result')
                   /\ result'.args[1] = c - 1
                   /\ result'.args[2] = k - 1]_vars

\* The second addOutput after an append-mode initOutputs has just stored its
\* values at index 1, behind the different values of the first.
C10_Witness ==
    /\ ReturnedFrom("addOutput", result)
    /\ Lengths = <<2>>
    /\ fOutputs[1][1][2] = AsFloat(result.args[2])
    /\ fOutputs[1][1][1] # fOutputs[1][1][2]

\* The declarations of product type `type` made to the producer so far.
Declared(type) == {i \in 1..Len(fProducer) : fProducer[i].type = type}

\* C11: the Description collection is declared to the producer exactly once, by
\* the first produces_using call; every produces_using<T> call declares one
\* Output collection named writer-name + type-name and nothing else; and no call
\* creates the Description container or changes the type registry, the Output
\* collections or the event.
C11_ProducesUsingOnlyDeclares ==
    [][/\ result'.op = "produces_using"
          => /\ \A i \in 1..Len(fProducer) : fProducer'[i] = fProducer[i]
             /\ fProducer'[Len(fProducer')] =
                   [type |-> "MVAOutput", instance |-> InstanceOf(result'.args[1])]
             /\ Len(fProducer') = Len(fProducer) + (IF fProducer = <<>> THEN 2 ELSE 1)
             /\ Cardinality(Declared("MVADescription")') = 1
             /\ Cardinality(Declared("MVAOutput")') = Cardinality(Declared("MVAOutput")) + 1
             /\ fDescriptions' = fDescriptions
             /\ fTypeHashToID' = fTypeHashToID
             /\ fOutputs' = fOutputs
             /\ evt' = evt
       /\ result'.op # "produces_using" => fProducer' = fProducer]_vars

\* The second produces_using call of the module has just returned, made while
\* the writer holds an initialised Output collection.
C11_Witness ==
    /\ result.op = "produces_using"
    /\ Len(fRegisteredDataTypes) = 2
    /\ Len(fProducer) = 3
    /\ Len(fOutputs) = 1
    /\ fDescriptions # <<>>

\* The cell of the point (wire, drift) under the configured granularity: the wire
\* as it is, with the drift's window when the full view is downscaled and the
\* drift itself when it is not.
CellOf(wire, drift) ==
    IF fDownscaleFullView THEN <<wire, drift \div (2 * fDriftWindow)>> ELSE <<wire, drift>>

\* r is the outcome of a bufferPatch call.
Buffered(r) == r.op = "bufferPatch"

\* The step is a bufferPatch call that took the cache-hit path.
CacheHit == Buffered(result') /\ called' = <<>>

\* C12: a bufferPatch call for a point of the same cell as the immediately
\* preceding bufferPatch call returns true, invokes no patch extraction, and leaves
\* both patch buffers and the cached coordinates as they were.
C12_CacheHitIdentity ==
    [][(/\ Buffered(result)
        /\ Buffered(result')
        /\ CellOf(result'.args[1], result'.args[2]) = CellOf(result.args[1], result.args[2]))
       => /\ result'.value = <<TRUE>>
          /\ called' = <<>>
          /\ UNCHANGED <<fWireDriftPatch, patch, fCurrentWireIdx, fCurrentScaledDrift>>]_vars

\* C18: a cache hit needs the cached wire index itself; when the full view is
\* downscaled, a call right after another bufferPatch call hits exactly when it
\* has the same wire and its drift lies in the same window; when the view is not
\* downscaled, a call that hits right after the call that filled the cache has
\* that call's wire and drift.
C18_SamePatchGranularity ==
    [][/\ CacheHit => result'.args[1] = fCurrentWireIdx
       /\ (fDownscaleFullView /\ Buffered(result) /\ Buffered(result'))
          => (CacheHit <=> /\ result'.args[1] = result.args[1]
                           /\ result'.args[2] \div (2 * fDriftWindow)
                                 = result.args[2] \div (2 * fDriftWindow))
       /\ (~fDownscaleFullView /\ Buffered(result) /\ called # <<>> /\ CacheHit)
          => (result'.args[1] = result.args[1] /\ result'.args[2] = result.args[2])]_vars

\* C19: when bufferPatch(wire, drift) on the algorithm's own patch has returned
\* true through the cache-hit path, fWireDriftPatch holds the data of a complete
\* extraction for the cell of (wire, drift).
C19_HitHoldsExtractedData ==
    (/\ Buffered(result)
     /\ result.args[3] = "fWireDriftPatch"
     /\ called = <<>>
     /\ result.value = <<TRUE>>)
    => /\ fWireDriftPatch.data = "complete"
       /\ CellOf(fWireDriftPatch.wire, fWireDriftPatch.drift)
             = CellOf(result.args[1], result.args[2])

\* The last call was an initOutputs that threw the duplicate-registration error.
DuplicateFailed == result.op = "initOutputs" /\ result.kind = "MVAWriter"

\* Every type declared through produces_using has a Description.
AllDeclaredDescribed ==
    \A k \in 1..Len(fRegisteredDataTypes) : HasDescription(fRegisteredDataTypes[k])

C14_TritonErrorPolicy ==
    [][/\ result'.op = "throwIfError"
          => /\ result'.kind = (IF result'.args[1].ok THEN "ok" ELSE "TritonServerFailure")
             /\ messages' = messages
       /\ result'.op = "warnIfError"
          => /\ result'.kind = "ok"
             /\ result'.value = <<result'.args[1].ok>>
             /\ IF result'.args[1].ok
                THEN messages' = messages
                ELSE /\ Len(messages') = Len(messages) + 1
                     /\ \A i \in 1..Len(messages) : messages'[i] = messages[i]
                     /\ messages'[Len(messages')].category = "TritonServerWarning"]_vars

\* throwIfError has just thrown for an error that warnIfError had only warned of.
C14_Witness ==
    /\ result.op = "throwIfError"
    /\ result.kind = "TritonServerFailure"
    /\ ~result.args[1].ok
    /\ Len(messages) = 1
    /\ messages[1].text = result.msg

\* C15: tf::Graph::create runs the not-throwing constructor once and returns the
\* Graph made from its arguments if and only if the constructor reported success;
\* when it reported failure the caller gets the null pointer, so no Graph on which
\* run could be invoked; the call touches nothing else.
C15_CreateReturnsGraphIffSuccess ==
    [][result'.op = "create"
       => /\ result'.kind = "ok"
          /\ Len(called') = 1
          /\ called'[1].fn = "Graph"
          /\ called'[1].args = result'.args
          /\ IF called'[1].ret
             THEN result'.value = <<[graph_file_name |-> result'.args[1],
                                     fOutputNames |-> result'.args[2],
                                     fUseBundle |-> result'.args[3]]>>
             ELSE result'.value = <<>>
          /\ UNCHANGED <<fCurrentWireIdx, fCurrentScaledDrift, fWireDriftPatch, patch>>]_vars

\* create has just returned the null pointer for a saved-model bundle whose
\* construction failed.
C15_Witness ==
    /\ result.op = "create"
    /\ result.args[3]
    /\ result.value = <<>>
    /\ called[1].ret = FALSE

\* The flags of enumeration e (a sequence of words) that were OR-ed into the label.
SetOf(e) == {i \in 1..Len(e) : e[i] \in result.args[2]}

\* The flags of enumeration e found in the label under the mask.
FoundIn(e, mask) == {i \in 1..Len(e) : e[i] \cap (result.value[1] \cap mask) # {}}

\* C16: kPdgMask, kTypeMask and kVtxMask are pairwise disjoint and cover bits
\* 0..31; every ETrkType flag is one bit of kTypeMask and every EVtxId flag one
\* bit of kVtxMask; no two flags are equal; and in a label made of a PDG code and
\* any flags OR-ed in, masking with kTypeMask (kVtxMask) gives exactly the track
\* type (vertex) flags that were set, while the PDG field still holds the code.
C16_LabelBitLayout ==
    /\ kPdgMask \cap kTypeMask = {}
    /\ kPdgMask \cap kVtxMask = {}
    /\ kTypeMask \cap kVtxMask = {}
    /\ kPdgMask \cup kTypeMask \cup kVtxMask = 0..31
    /\ kPdgMask = 0..11
    /\ kTypeMask = 12..15
    /\ kVtxMask = 16..31
    /\ \A i \in 1..Len(ETrkType) :
          Cardinality(ETrkType[i]) = 1 /\ ETrkType[i] \subseteq kTypeMask
    /\ \A i \in 1..Len(EVtxId) :
          Cardinality(EVtxId[i]) = 1 /\ EVtxId[i] \subseteq kVtxMask
    /\ \A i \in 1..Len(Flags) : \A j \in 1..Len(Flags) : i # j => Flags[i] # Flags[j]
    /\ result.op = "label"
          => /\ FoundIn(ETrkType, kTypeMask) = SetOf(ETrkType)
             /\ FoundIn(EVtxId, kVtxMask) = SetOf(EVtxId)
             /\ result.value[1] \cap kTypeMask
                   = UNION {f \in result.args[2] : f \subseteq 12..15}
             /\ result.value[1] \cap kVtxMask
                   = UNION {f \in result.args[2] : f \subseteq 16..31}
             /\ result.value[1] \cap kPdgMask = result.args[1]

\* A label carries a track type flag and a vertex flag on top of its PDG code.
C16_Witness ==
    /\ result.op = "label"
    /\ SetOf(ETrkType) # {}
    /\ SetOf(EVtxId) # {}
    /\ result.value[1] \cap (0..11) # {}

\* Type T has an entry in the type registry.
Initialised(T) == getProductHash(T) \in DOMAIN fTypeHashToID

\* The id the type registry holds for an initialised type T.
IdOf(T) == fTypeHashToID[getProductHash(T)]

\* No type has been initialised in the current event yet: the writer was just
\* constructed or the event has just begun.
EventStart == result.op \in {"MVAWriter", "beginEvent"}

\* C20, ids: the first initOutputs<T> of an event returns 0 and an initOutputs<T>
\* right after another returns one more than it; the call records T -> id in the
\* type registry and appends T's Description at index id, and leaves the ids and
\* the collections of the types initialised earlier as they were.
C20_IdIsCount ==
    ReturnedFrom("initOutputs", result')
    => \A T \in Types : \A id \in Ids :
          (result'.args[1] = T /\ result'.value = <<id>>)
          => /\ EventStart => id = 0
             /\ ReturnedFrom("initOutputs", result) => id = result.value[1] + 1
             /\ Initialised(T)' /\ IdOf(T)' = id
             /\ Len(Descriptions') = id + 1
             /\ Descriptions'[id + 1].outputInstance = InstanceOf(T)
             /\ \A i \in 1..Len(Descriptions) : Descriptions'[i] = Descriptions[i]
             /\ \A U \in Types \ {T} :
                   Initialised(U) => (Initialised(U)' /\ IdOf(U)' = IdOf(U))
             /\ \A i \in 1..Len(fOutputs) : fOutputs'[i] = fOutputs[i]

\* C20, names: every initialised type has an id of its own, the Description at
\* that index carries the instance name writer-name + type-name, and a saveOutputs
\* that succeeds puts the Output collection of that index under exactly that name.
C20_IdNamesCollection ==
    /\ \A T \in Types :
          Initialised(T)
          => /\ IdOf(T) < Len(Descriptions)
             /\ Descriptions[IdOf(T) + 1].outputInstance = InstanceOf(T)
             /\ \A U \in Types \ {T} : Initialised(U) => IdOf(U) # IdOf(T)
    /\ ReturnedFrom("saveOutputs", result')
       => \A T \in Types :
             Initialised(T)
             => evt'[Len(evt) + IdOf(T) + 1] =
                   [type |-> "MVAOutput", instance |-> InstanceOf(T),
                    product |-> fOutputs[IdOf(T) + 1][1]]

\* C20: initOutputs<T> returns the number of types already initialised in the
\* current event and the id names T's Description and Output collection.
C20_InitOutputsIdOrder == [][C20_IdIsCount /\ C20_IdNamesCollection]_vars

\* C21: whenever saveOutputs is called, the Description container exists or the
\* call throws the MVAWriter "No MVADescription" error before it compares the
\* counts; it never reads the size of an absent container.
C21_SaveNeverReadsAbsentDescriptions ==
    [][saveOutputs
       => \/ fDescriptions # <<>>
          \/ /\ result'.kind = "MVAWriter"
             /\ result'.msg = "No MVADescription<N> prepared for type"]_vars

\* An Output collection was declared to the producer under the instance name.
DeclaredOutput(instance) ==
    \E i \in 1..Len(fProducer) :
        fProducer[i].type = "MVAOutput" /\ fProducer[i].instance = instance

\* C22: every Output collection that a successful saveOutputs puts into the event
\* goes under an instance name that produces_using declared to the producer.
C22_PutsOnlyDeclaredTypes ==
    [][ReturnedFrom("saveOutputs", result')
       => \A j \in (Len(evt) + 1)..Len(evt') :
             evt'[j].type = "MVAOutput" => DeclaredOutput(evt'[j].instance)]_vars

====
